---- MODULE Spec2Model ----
(***************************************************************************)
(* A model of src/main.cpp of vulkan-playground: the linear setup          *)
(* sequence of main() (instance, surface, physical device selection,       *)
(* logical device, surface negotiation, swapchain, image views, shader     *)
(* modules, viewport, pipeline layout), the event-wait loop and the        *)
(* teardown.  The graphics driver and the windowing library are external:  *)
(* every value they report is drawn nondeterministically at the call that  *)
(* obtains it, and every checked call may fail.                            *)
(*                                                                         *)
(* uint32_t values that take part in arithmetic or in a comparison with    *)
(* numeric_limits<uint32_t>::max() are kept at their width as two 16-bit   *)
(* limbs <<hi, lo>> (value hi * 2^16 + lo).  Queue family indices, handles *)
(* and vector lengths are small naturals.  std::optional<uint32_t> is a    *)
(* sequence of length 0 (no value) or 1 (the value).                       *)
(***************************************************************************)
EXTENDS Integers, Sequences, FiniteSets, TLC

\* ---------------------------------------------------------------- bounds
MaxDevices == 2     \* physical devices the driver enumerates
MaxFamilies == 2    \* queue families per physical device
MaxFormats == 2     \* surface formats the driver reports
MaxCount == 2       \* small min/max image counts the driver reports
MaxImages == 3      \* swapchain images the driver hands out

\* ------------------------------------------------------- program constants
g_window_width == 800
g_window_height == 600
Limb == 65536       \* 2^16: a uint32_t is two limbs
FloatBits == 24     \* significand width of a 32-bit float

\* ------------------------------------------------------- uint32_t as limbs
U32(n) == <<n \div Limb, n % Limb>>
UINT32_MAX == <<Limb - 1, Limb - 1>>
Zero32 == <<0, 0>>

\* x + 1 in uint32_t arithmetic (wraps to 0 at 2^32 - 1)
Inc32(x) ==
    IF x[2] = Limb - 1
        THEN <<(x[1] + 1) % Limb, 0>>
        ELSE <<x[1], x[2] + 1>>

Gt32(a, b) == a[1] > b[1] \/ (a[1] = b[1] /\ a[2] > b[2])
Le32(a, b) == ~Gt32(a, b)

RECURSIVE BitLen(_)
BitLen(n) == IF n = 0 THEN 0 ELSE 1 + BitLen(n \div 2)

RECURSIVE Pow2(_)
Pow2(n) == IF n = 0 THEN 1 ELSE 2 * Pow2(n - 1)

\* static_cast<float>(x) of a uint32_t x: the nearest value with a 24-bit
\* significand, ties to even.  The result is the integer the float denotes,
\* as limbs whose high limb may reach 2^16 (the float 4294967296.0).
ToFloat(x) ==
    LET bits == IF x[1] = 0 THEN BitLen(x[2]) ELSE 16 + BitLen(x[1])
    IN  IF bits <= FloatBits
            THEN x
            ELSE LET q    == Pow2(bits - FloatBits)
                     rem  == x[2] % q
                     base == x[2] - rem
                     odd  == (x[2] \div q) % 2 = 1
                     up   == 2 * rem > q \/ (2 * rem = q /\ odd)
                 IN  IF ~up THEN <<x[1], base>>
                     ELSE IF base + q = Limb THEN <<x[1] + 1, 0>>
                     ELSE <<x[1], base + q>>

\* ---------------------------------------------------------- driver values
NoIdx == <<>>
Some(i) == <<i>>
has_value(o) == Len(o) > 0

VK_NULL_HANDLE == 0

\* VkQueueFamilyProperties as seen by the scan: the graphics bit of
\* queueFlags and the answer of vkGetPhysicalDeviceSurfaceSupportKHR.
QueueFamily == [graphics : BOOLEAN, supports_present : BOOLEAN]

SeqsUpTo(S, n) == UNION {[1..k -> S] : k \in 0..n}

FamilyLists == SeqsUpTo(QueueFamily, MaxFamilies)

\* VkSurfaceFormatKHR values the driver may report
PreferredFormat ==
    [format |-> "B8G8R8A8_SRGB", colorSpace |-> "SRGB_NONLINEAR"]
SurfaceFormats ==
    { PreferredFormat,
      [format |-> "R8G8B8A8_UNORM", colorSpace |-> "SRGB_NONLINEAR"],
      [format |-> "B8G8R8A8_SRGB", colorSpace |-> "EXTENDED_SRGB_LINEAR"] }
NoFormat == [format |-> "UNDEFINED", colorSpace |-> "SRGB_NONLINEAR"]

\* the driver reports each format at most once
FormatLists ==
    {fmts \in SeqsUpTo(SurfaceFormats, MaxFormats) :
        \A i, j \in 1..Len(fmts) : fmts[i] = fmts[j] => i = j}
\* VkPresentModeKHR lists: only their emptiness is ever read
ModeLists == {<<>>, <<"FIFO">>}

\* image counts: the small ones and the top of the uint32_t range
CountValues == {U32(n) : n \in 0..MaxCount} \cup {UINT32_MAX}

\* extents: the window size, an extent whose width is the first integer a
\* float cannot hold and whose height is the largest uint32_t, and one with
\* the all-bits-set width
ExtentValues ==
    { [width |-> U32(g_window_width), height |-> U32(g_window_height)],
      [width |-> <<Pow2(FloatBits - 16), 1>>, height |-> UINT32_MAX],
      [width |-> UINT32_MAX, height |-> U32(g_window_height)] }

NoExtent == [width |-> Zero32, height |-> Zero32]
NoCapabilities ==
    [minImageCount |-> Zero32, maxImageCount |-> Zero32,
     currentExtent |-> NoExtent]
Capabilities ==
    [minImageCount : CountValues, maxImageCount : CountValues,
     currentExtent : ExtentValues]

\* PhysicalDeviceInfo{} (lines 200-205)
NoDeviceInfo ==
    [device |-> VK_NULL_HANDLE, graphics_family_idx |-> NoIdx,
     present_family_idx |-> NoIdx, discrete |-> FALSE]

NoSwapchainInfo ==
    [minImageCount |-> Zero32, imageFormat |-> "UNDEFINED",
     imageColorSpace |-> "SRGB_NONLINEAR", imageExtent |-> NoExtent,
     imageSharingMode |-> "EXCLUSIVE", queueFamilyIndices |-> <<>>,
     presentMode |-> "FIFO"]

NoViewport == [width |-> Zero32, height |-> Zero32]

VARIABLES
    pc,                    \* position of main()
    use_validation_layers, \* the compile-time toggle USE_VALIDATION_LAYERS
    diagnostic,            \* the message printed before std::terminate()
    created,               \* resources created so far, in creation order
    released,              \* resources released so far, in release order
    physical_devices,      \* handles returned by vkEnumeratePhysicalDevices
    scan_idx,              \* devices the scan loop has visited
    devices_info,          \* the candidate records
    physical_device_info,  \* the selected candidate
    capabilities, formats, present_modes,
    surface_format,
    image_count,
    swap_chain_info,
    swap_chain_images, swap_chain_views,
    viewport, scissor,
    destroyed_views,       \* handles passed to vkDestroyImageView, in order
    should_close,          \* the window's should-close flag
    queue_families,        \* queue families reported for the scanned device
    physical_device,       \* graphics-only variant: the selected handle
    queue_family_idx,      \* graphics-only variant: the recorded index
    device_families        \* graphics-only variant: families per device

vars ==
    <<pc, use_validation_layers, diagnostic, created, released,
      physical_devices, scan_idx, devices_info,
      physical_device_info, capabilities, formats, present_modes,
      surface_format, image_count, swap_chain_info, swap_chain_images,
      swap_chain_views, viewport, scissor, destroyed_views, should_close,
      queue_families, physical_device, queue_family_idx, device_families>>

Init ==
    /\ pc = "init_window"
    /\ use_validation_layers \in BOOLEAN
    /\ diagnostic = ""
    /\ created = <<>>
    /\ released = <<>>
    /\ physical_devices = <<>>
    /\ scan_idx = 0
    /\ devices_info = <<>>
    /\ physical_device_info = NoDeviceInfo
    /\ capabilities = NoCapabilities
    /\ formats = <<>>
    /\ present_modes = <<>>
    /\ surface_format = NoFormat
    /\ image_count = Zero32
    /\ swap_chain_info = NoSwapchainInfo
    /\ swap_chain_images = <<>>
    /\ swap_chain_views = <<>>
    /\ viewport = NoViewport
    /\ scissor = NoExtent
    /\ destroyed_views = <<>>
    /\ should_close = FALSE
    /\ queue_families = <<>>
    /\ physical_device = VK_NULL_HANDLE
    /\ queue_family_idx = 0
    /\ device_families = <<>>


\* ------------------------------------------------------------ termination
\* a failure that prints and carries on
Abort_Continue(msg) ==
    /\ pc' = pc
    /\ diagnostic' = msg

\* fmt::print(stderr, msg); std::terminate();
Abort(msg) ==
    /\ pc' = "aborted"
    /\ diagnostic' = msg

\* ------------------------------------------------- setup: lines 100 - 193
\* glfwInit and glfwCreateWindow; a GLFW error reaches glfw_error_callback,
\* which terminates (lines 21-24, 100-109).
InitWindow ==
    /\ pc = "init_window"
    /\ \E ok \in BOOLEAN :
        IF ok
            THEN /\ pc' = "create_instance"
                 /\ created' = Append(created, "window")
                 /\ UNCHANGED diagnostic
            ELSE /\ Abort("GLFW error")
                 /\ UNCHANGED created
    /\ UNCHANGED <<use_validation_layers, physical_device, queue_family_idx,
                   device_families,
                   queue_families, released, physical_devices,
                   scan_idx, devices_info,
                   physical_device_info, capabilities, formats,
                   present_modes, surface_format, image_count,
                   swap_chain_info, swap_chain_images, swap_chain_views,
                   viewport, scissor, destroyed_views, should_close>>

\* vkCreateInstance (lines 165-170)
CreateInstance ==
    /\ pc = "create_instance"
    /\ \E ok \in BOOLEAN :
        IF ok
            THEN /\ pc' = IF use_validation_layers
                              THEN "create_messenger"
                              ELSE "create_surface"
                 /\ created' = Append(created, "instance")
                 /\ UNCHANGED diagnostic
            ELSE /\ Abort("Failed to create vulkan instance")
                 /\ UNCHANGED created
    /\ UNCHANGED <<use_validation_layers, physical_device, queue_family_idx,
                   device_families,
                   queue_families, released, physical_devices,
                   scan_idx, devices_info,
                   physical_device_info, capabilities, formats,
                   present_modes, surface_format, image_count,
                   swap_chain_info, swap_chain_images, swap_chain_views,
                   viewport, scissor, destroyed_views, should_close>>

\* vk_func("vkCreateDebugUtilsMessengerEXT") and the call (lines 172-186)
CreateMessenger ==
    /\ pc = "create_messenger"
    /\ \E found \in BOOLEAN, ok \in BOOLEAN :
        IF ~found
            THEN /\ Abort("Vulkan function not found")
                 /\ UNCHANGED created
        ELSE IF ~ok
            THEN /\ Abort("Failed to setup vulkan debug callback")
                 /\ UNCHANGED created
        ELSE /\ pc' = "create_surface"
             /\ created' = Append(created, "messenger")
             /\ UNCHANGED diagnostic
    /\ UNCHANGED <<use_validation_layers, physical_device, queue_family_idx,
                   device_families,
                   queue_families, released, physical_devices,
                   scan_idx, devices_info,
                   physical_device_info, capabilities, formats,
                   present_modes, surface_format, image_count,
                   swap_chain_info, swap_chain_images, swap_chain_views,
                   viewport, scissor, destroyed_views, should_close>>

\* glfwCreateWindowSurface (lines 188-193)
CreateSurface ==
    /\ pc = "create_surface"
    /\ \E ok \in BOOLEAN :
        IF ok
            THEN /\ pc' = "enumerate_devices"
                 /\ created' = Append(created, "surface")
                 /\ UNCHANGED diagnostic
            ELSE /\ Abort("Failed to create a window surface")
                 /\ UNCHANGED created
    /\ UNCHANGED <<use_validation_layers, physical_device, queue_family_idx,
                   device_families,
                   queue_families, released, physical_devices,
                   scan_idx, devices_info,
                   physical_device_info, capabilities, formats,
                   present_modes, surface_format, image_count,
                   swap_chain_info, swap_chain_images, swap_chain_views,
                   viewport, scissor, destroyed_views, should_close>>

\* -------------------------------------- device selection: lines 195 - 262
\* vkEnumeratePhysicalDevices returns device_count distinct non-null
\* handles; vk_func resolves vkGetPhysicalDeviceSurfaceSupportKHR;
\* devices_info is constructed with device_count value-initialised records
\* (lines 195-212).
EnumerateDevices ==
    /\ pc = "enumerate_devices"
    /\ \E device_count \in 0..MaxDevices, found \in BOOLEAN :
        IF ~found
            THEN /\ Abort("Vulkan function not found")
                 /\ UNCHANGED <<physical_devices, devices_info>>
            ELSE /\ physical_devices' = [i \in 1..device_count |-> i]
                 /\ devices_info' = [i \in 1..device_count |-> NoDeviceInfo]
                 /\ pc' = IF device_count = 0
                              THEN "select_device"
                              ELSE "scan_devices"
                 /\ UNCHANGED diagnostic
    /\ UNCHANGED <<use_validation_layers, physical_device, queue_family_idx,
                   device_families,
                   queue_families, created, released, scan_idx,
                   physical_device_info, capabilities,
                   formats, present_modes, surface_format, image_count,
                   swap_chain_info, swap_chain_images, swap_chain_views,
                   viewport, scissor, destroyed_views, should_close>>

\* a queue family loop that keeps the first qualifying index
RECURSIVE ScanFamilies_FirstWins(_, _, _)
ScanFamilies_FirstWins(families, idx, info) ==
    IF idx >= Len(families)
        THEN info
        ELSE LET family == families[idx + 1]
                 info1 == IF family.graphics
                             /\ ~has_value(info.graphics_family_idx)
                              THEN [info EXCEPT !.graphics_family_idx = Some(idx)]
                              ELSE info
                 info2 == IF family.supports_present
                             /\ ~has_value(info.present_family_idx)
                              THEN [info1 EXCEPT !.present_family_idx = Some(idx)]
                              ELSE info1
             IN  ScanFamilies_FirstWins(families, idx + 1, info2)

\* the queue family loop of one device (lines 227-242): idx counts the
\* families, each qualifying family overwrites the recorded index
RECURSIVE ScanFamilies(_, _, _)
ScanFamilies(families, idx, info) ==
    IF idx >= Len(families)
        THEN info
        ELSE LET family == families[idx + 1]
                 info1 == IF family.graphics
                              THEN [info EXCEPT !.graphics_family_idx = Some(idx)]
                              ELSE info
                 info2 == IF family.supports_present
                              THEN [info1 EXCEPT !.present_family_idx = Some(idx)]
                              ELSE info1
             IN  ScanFamilies(families, idx + 1, info2)

\* the record built for one candidate device (lines 214-247)
BuildDeviceInfo(handle, families, is_discrete) ==
    [ScanFamilies(families, 0, [NoDeviceInfo EXCEPT !.device = handle])
        EXCEPT !.discrete = is_discrete]

\* one iteration of the loop over physical_devices (lines 213-249): the
\* driver reports the device's queue families, their surface support and
\* its device type; the record is appended to devices_info
ScanCandidate(families, is_discrete) ==
    /\ pc = "scan_devices"
    /\ scan_idx < Len(physical_devices)
    /\ devices_info' =
           Append(devices_info,
                  BuildDeviceInfo(physical_devices[scan_idx + 1],
                                  families, is_discrete))
    /\ scan_idx' = scan_idx + 1
    /\ pc' = IF scan_idx + 1 = Len(physical_devices)
                 THEN "select_device"
                 ELSE "scan_devices"
    /\ UNCHANGED <<use_validation_layers, physical_device, queue_family_idx,
                   device_families,
                   diagnostic, created, released,
                   physical_devices, physical_device_info, capabilities,
                   formats, present_modes, surface_format, image_count,
                   swap_chain_info, swap_chain_images, swap_chain_views,
                   viewport, scissor, destroyed_views, should_close>>

ScanDevice ==
    \E families \in FamilyLists, is_discrete \in BOOLEAN :
        /\ ScanCandidate(families, is_discrete)
        /\ UNCHANGED queue_families

\* the same iteration, keeping what the driver reported for the device
ScanDeviceObserved ==
    \E families \in FamilyLists, is_discrete \in BOOLEAN :
        /\ ScanCandidate(families, is_discrete)
        /\ queue_families' = families

\* the first two conjuncts of the condition of lines 253-254
Suitable(info) ==
    /\ has_value(info.graphics_family_idx)
    /\ has_value(info.present_family_idx)

\* a loop that keeps the first suitable device whatever its type
Accepts_FirstWins(selected, info) ==
    Suitable(info) /\ selected.device = VK_NULL_HANDLE

\* a loop whose discrete test lost its negation
Accepts_Inverted(selected, info) ==
    Suitable(info) /\ selected.discrete

\* a loop that forgets the discrete test
Accepts_LastWins(selected, info) ==
    Suitable(info)

\* a condition that tests the graphics index alone
Accepts_GraphicsOnly(selected, info) ==
    has_value(info.graphics_family_idx) /\ ~selected.discrete

\* the condition under which the loop body assigns (lines 253-255)
Accepts(selected, info) ==
    Suitable(info) /\ ~selected.discrete

\* the selection loop (lines 251-258), from entry i on
RECURSIVE SelectFrom(_, _, _)
SelectFrom(infos, i, selected) ==
    IF i > Len(infos)
        THEN selected
        ELSE SelectFrom(infos, i + 1,
                        IF Accepts(selected, infos[i])
                            THEN infos[i]
                            ELSE selected)

\* a check that only fires for a discrete record
NothingSelected_Discrete(selected) ==
    selected.device = VK_NULL_HANDLE /\ selected.discrete

\* the check of line 259
NothingSelected(selected) ==
    selected.device = VK_NULL_HANDLE

\* lines 251-262: run the selection loop, terminate when nothing was chosen
SelectDevice ==
    /\ pc = "select_device"
    /\ LET selected == SelectFrom(devices_info, 1, NoDeviceInfo)
       IN  /\ physical_device_info' = selected
           /\ IF NothingSelected(selected)
                  THEN Abort("Failed to find a suitable physical device")
                  ELSE /\ pc' = "create_device"
                       /\ UNCHANGED diagnostic
    /\ UNCHANGED <<use_validation_layers, physical_device, queue_family_idx,
                   device_families,
                   queue_families, created, released,
                   physical_devices, scan_idx, devices_info, capabilities,
                   formats, present_modes, surface_format, image_count,
                   swap_chain_info, swap_chain_images, swap_chain_views,
                   viewport, scissor, destroyed_views, should_close>>

\* vkCreateDevice (lines 264-301).  physical_devices and devices_info are
\* never read after the selection loop; the model drops them here.
CreateDevice ==
    /\ pc = "create_device"
    /\ \E ok \in BOOLEAN :
        IF ok
            THEN /\ pc' = "query_surface"
                 /\ created' = Append(created, "device")
                 /\ UNCHANGED diagnostic
            ELSE /\ Abort("Failed to create a logical device")
                 /\ UNCHANGED created
    /\ physical_devices' = <<>>
    /\ devices_info' = <<>>
    /\ scan_idx' = 0
    /\ UNCHANGED <<use_validation_layers, physical_device, queue_family_idx,
                   device_families,
                   queue_families, released, physical_device_info, capabilities, formats,
                   present_modes, surface_format, image_count,
                   swap_chain_info, swap_chain_images, swap_chain_views,
                   viewport, scissor, destroyed_views, should_close>>

\* ------------------------------------ surface negotiation: lines 303 - 409
IsPreferred(candidate_format) ==
    /\ candidate_format.format = "B8G8R8A8_SRGB"
    /\ candidate_format.colorSpace = "SRGB_NONLINEAR"

\* a loop without the format_selected flag: the last entry wins
RECURSIVE ChooseFrom_LastWins(_, _, _, _)
ChooseFrom_LastWins(fmts, i, chosen, format_selected) ==
    IF i > Len(fmts) THEN chosen
    ELSE IF IsPreferred(fmts[i]) THEN fmts[i]
    ELSE ChooseFrom_LastWins(fmts, i + 1, fmts[i], TRUE)

\* the format loop (lines 350-362), from entry i on: the preferred pair is
\* taken and ends the loop, the first entry is taken while nothing is
\* selected yet
RECURSIVE ChooseFrom(_, _, _, _)
ChooseFrom(fmts, i, chosen, format_selected) ==
    IF i > Len(fmts) THEN chosen
    ELSE IF IsPreferred(fmts[i]) THEN fmts[i]
    ELSE IF ~format_selected THEN ChooseFrom(fmts, i + 1, fmts[i], TRUE)
    ELSE ChooseFrom(fmts, i + 1, chosen, format_selected)

\* a check that needs both lists to be empty
InsufficientSupport_Both(fmts, modes) ==
    fmts = <<>> /\ modes = <<>>

\* the check of line 344
InsufficientSupport(fmts, modes) ==
    fmts = <<>> \/ modes = <<>>

\* lines 303-362: vk_func resolves the three surface queries; the driver
\* reports the capabilities, the formats and the present modes of the
\* selected device; an empty list terminates; otherwise the format loop
\* runs
QuerySurface ==
    /\ pc = "query_surface"
    /\ \E found \in BOOLEAN :
        IF ~found
            THEN /\ Abort("Vulkan function not found")
                 /\ UNCHANGED <<capabilities, formats, present_modes,
                                surface_format>>
            ELSE \E caps \in Capabilities, fmts \in FormatLists,
                    modes \in ModeLists :
                 /\ capabilities' = caps
                 /\ formats' = fmts
                 /\ present_modes' = modes
                 /\ IF InsufficientSupport(fmts, modes)
                        THEN /\ Abort("Insufficient swap chain support")
                             /\ UNCHANGED surface_format
                        ELSE /\ surface_format' =
                                    ChooseFrom(fmts, 1, NoFormat, FALSE)
                             /\ pc' = "check_extent"
                             /\ UNCHANGED diagnostic
    /\ UNCHANGED <<use_validation_layers, physical_device, queue_family_idx,
                   device_families,
                   queue_families, created, released,
                   physical_devices, scan_idx, devices_info,
                   physical_device_info, image_count, swap_chain_info,
                   swap_chain_images, swap_chain_views, viewport, scissor,
                   destroyed_views, should_close>>

\* lines 364-368.  formats is not read after the format loop; the model
\* drops it here.
CheckExtent ==
    /\ pc = "check_extent"
    /\ IF capabilities.currentExtent.width = UINT32_MAX
           THEN Abort("Display resolution things I can't be bothered with")
           ELSE /\ pc' = "create_swapchain"
                /\ UNCHANGED diagnostic
    /\ formats' = <<>>
    /\ UNCHANGED <<use_validation_layers, physical_device, queue_family_idx,
                   device_families,
                   queue_families, created, released,
                   physical_devices, scan_idx, devices_info,
                   physical_device_info, capabilities, present_modes,
                   surface_format, image_count, swap_chain_info,
                   swap_chain_images, swap_chain_views, viewport, scissor,
                   destroyed_views, should_close>>

\* a clamp that forgets that a maximum of 0 means no maximum
ImageCount_NoZeroTest(caps) ==
    LET count == Inc32(caps.minImageCount)
    IN  IF Gt32(count, caps.maxImageCount)
            THEN caps.maxImageCount
            ELSE count

\* lines 369-373
ImageCount(caps) ==
    LET count == Inc32(caps.minImageCount)
    IN  IF Gt32(caps.maxImageCount, Zero32) /\ Gt32(count, caps.maxImageCount)
            THEN caps.maxImageCount
            ELSE count

\* the two sharing modes exchanged
SharingMode_Swapped(info) ==
    IF info.graphics_family_idx = info.present_family_idx
        THEN "CONCURRENT"
        ELSE "EXCLUSIVE"

\* lines 389-392: operator== of the two optionals
SharingMode(info) ==
    IF info.graphics_family_idx = info.present_family_idx
        THEN "EXCLUSIVE"
        ELSE "CONCURRENT"

\* lines 375-399
SwapchainInfo(info, caps, fmt, count) ==
    [minImageCount |-> count,
     imageFormat |-> fmt.format,
     imageColorSpace |-> fmt.colorSpace,
     imageExtent |-> caps.currentExtent,
     imageSharingMode |-> SharingMode(info),
     queueFamilyIndices |->
         <<info.graphics_family_idx[1], info.present_family_idx[1]>>,
     presentMode |-> "FIFO"]

\* lines 369-409: the image count, the create info and vkCreateSwapchainKHR.
\* The modelled driver hands out at most MaxImages images and refuses a
\* swapchain that asks for more.
CreateSwapchain ==
    /\ pc = "create_swapchain"
    /\ LET count == ImageCount(capabilities)
       IN  /\ image_count' = count
           /\ swap_chain_info' =
                  SwapchainInfo(physical_device_info, capabilities,
                                surface_format, count)
           /\ \E ok \in BOOLEAN :
                IF ok /\ Le32(count, U32(MaxImages))
                    THEN /\ pc' = "get_images"
                         /\ created' = Append(created, "swapchain")
                         /\ UNCHANGED diagnostic
                    ELSE /\ Abort("Failed to create swap chain")
                         /\ UNCHANGED created
    /\ UNCHANGED <<use_validation_layers, physical_device, queue_family_idx,
                   device_families,
                   queue_families, released, physical_devices,
                   scan_idx, devices_info,
                   physical_device_info, capabilities, formats,
                   present_modes, surface_format, swap_chain_images,
                   swap_chain_views, viewport, scissor, destroyed_views,
                   should_close>>

\* ------------------------------------------- image views: lines 410 - 448
\* a query that returns the images and leaves image_count alone
GetImages_KeepsCount ==
    /\ pc = "get_images"
    /\ \E n \in 1..MaxImages :
        /\ Le32(swap_chain_info.minImageCount, U32(n))
        /\ swap_chain_images' = [i \in 1..n |-> i]
        /\ swap_chain_views' = [i \in 1..n |-> VK_NULL_HANDLE]
    /\ pc' = "create_views"
    /\ UNCHANGED <<use_validation_layers, physical_device, queue_family_idx,
                   device_families,
                   queue_families, diagnostic, created, released,
                   physical_devices, scan_idx, devices_info,
                   physical_device_info, capabilities, formats,
                   present_modes, surface_format, image_count,
                   swap_chain_info, viewport, scissor, destroyed_views,
                   should_close>>

\* vkGetSwapchainImagesKHR writes the number of images into image_count (at
\* least the count asked for) and returns that many distinct images;
\* swap_chain_views is constructed with that many null handles
GetImages ==
    /\ pc = "get_images"
    /\ \E n \in 1..MaxImages :
        /\ Le32(swap_chain_info.minImageCount, U32(n))
        /\ image_count' = U32(n)
        /\ swap_chain_images' = [i \in 1..n |-> i]
        /\ swap_chain_views' = [i \in 1..n |-> VK_NULL_HANDLE]
    /\ pc' = "create_views"
    /\ UNCHANGED <<use_validation_layers, physical_device, queue_family_idx,
                   device_families,
                   queue_families, diagnostic, created, released,
                   physical_devices, scan_idx, devices_info, physical_device_info, capabilities,
                   formats, present_modes, surface_format, swap_chain_info,
                   viewport, scissor, destroyed_views, should_close>>

\* images the view loop has visited
views_done == Len(swap_chain_views) - Len(swap_chain_images)

\* one iteration of the loop over swap_chain_images (lines 419-448): the
\* view of image k has handle k
CreateView ==
    /\ pc = "create_views"
    /\ views_done < Len(swap_chain_images)
    /\ \E ok \in BOOLEAN :
        IF ok
            THEN /\ swap_chain_views' =
                        Append(swap_chain_views,
                               swap_chain_images[views_done + 1])
                 /\ pc' = IF views_done + 1 = Len(swap_chain_images)
                              THEN "create_pipeline"
                              ELSE "create_views"
                 /\ UNCHANGED diagnostic
            ELSE /\ Abort("Failed to create an image view")
                 /\ UNCHANGED swap_chain_views
    /\ UNCHANGED <<use_validation_layers, physical_device, queue_family_idx,
                   device_families,
                   queue_families, created, released,
                   physical_devices, scan_idx, devices_info, physical_device_info, capabilities,
                   formats, present_modes, surface_format, image_count,
                   swap_chain_info, swap_chain_images, viewport, scissor,
                   destroyed_views, should_close>>

\* --------------------------------------------- pipeline: lines 450 - 567
\* width and height exchanged
Viewport_Swapped(extent) ==
    [width |-> ToFloat(extent.height), height |-> ToFloat(extent.width)]

\* lines 478-484: the extent converted to float
Viewport(extent) ==
    [width |-> ToFloat(extent.width), height |-> ToFloat(extent.height)]

\* lines 450-567: the two shader modules (read_file, create_shader_modules),
\* the viewport and the scissor, the pipeline layout and the two queues;
\* each of the three creations may fail and terminate
CreatePipeline ==
    /\ pc = "create_pipeline"
    /\ \E vert_ok \in BOOLEAN, frag_ok \in BOOLEAN, layout_ok \in BOOLEAN :
        IF ~vert_ok
            THEN /\ Abort("Failed to create shader module")
                 /\ UNCHANGED <<created, viewport, scissor>>
        ELSE IF ~frag_ok
            THEN /\ Abort("Failed to create shader module")
                 /\ created' = Append(created, "vert_shader_module")
                 /\ UNCHANGED <<viewport, scissor>>
        ELSE /\ viewport' = Viewport(capabilities.currentExtent)
             /\ scissor' = capabilities.currentExtent
             /\ IF ~layout_ok
                    THEN /\ Abort("Failed to create pipeline layout")
                         /\ created' = created \o
                                <<"vert_shader_module", "frag_shader_module">>
                    ELSE /\ pc' = "event_loop"
                         /\ created' = created \o
                                <<"vert_shader_module", "frag_shader_module",
                                  "pipeline_layout">>
                         /\ UNCHANGED diagnostic
    /\ UNCHANGED <<use_validation_layers, physical_device, queue_family_idx,
                   device_families,
                   queue_families, released, physical_devices,
                   scan_idx, devices_info,
                   physical_device_info, capabilities, formats,
                   present_modes, surface_format, image_count,
                   swap_chain_info, swap_chain_images, swap_chain_views,
                   destroyed_views, should_close>>

\* ------------------------------------------- event loop: lines 569 - 572
\* glfw_key_callback (lines 35-46)
\* a callback that closes on every key
glfw_key_callback_AnyKey(flag, key) ==
    TRUE

glfw_key_callback(flag, key) ==
    IF key \in {"Q", "ESCAPE"} THEN TRUE ELSE flag

Keys == {"Q", "ESCAPE", "A", "ENTER"}

\* glfwWaitEvents returns after an event: a key event runs the callback, a
\* close request makes the library set the flag, any other event does
\* nothing
WaitEvents ==
    /\ pc = "event_loop"
    /\ ~should_close
    /\ \E kind \in {"key", "close", "other"}, key \in Keys :
        should_close' =
            CASE kind = "key" -> glfw_key_callback(should_close, key)
              [] kind = "close" -> TRUE
              [] OTHER -> should_close
    /\ UNCHANGED pc
    /\ UNCHANGED <<use_validation_layers, physical_device, queue_family_idx,
                   device_families,
                   queue_families, diagnostic, created, released,
                   physical_devices, scan_idx, devices_info, physical_device_info, capabilities,
                   formats, present_modes, surface_format, image_count,
                   swap_chain_info, swap_chain_images, swap_chain_views,
                   viewport, scissor, destroyed_views>>

\* ---------------------------------------------- teardown: lines 574 - 592
\* a teardown that destroys the logical device first
ReleasedFirst_DeviceFirst ==
    <<"device", "pipeline_layout", "vert_shader_module",
      "frag_shader_module", "image_views", "swapchain", "surface">>

\* the releases up to the surface (lines 574-582); "image_views" stands for
\* the loop over swap_chain_views
ReleasedFirst ==
    <<"pipeline_layout", "vert_shader_module", "frag_shader_module",
      "image_views", "swapchain", "device", "surface">>

\* the loop condition is false (line 570) and main() releases everything
\* (lines 574-592); with validation layers vk_func resolves
\* vkDestroyDebugUtilsMessengerEXT and terminates when it is missing
Teardown ==
    /\ pc = "event_loop"
    /\ should_close
    /\ destroyed_views' = swap_chain_views
    /\ IF use_validation_layers
           THEN \E found \in BOOLEAN :
                   IF found
                       THEN /\ released' = ReleasedFirst \o
                                   <<"messenger", "instance", "window">>
                            /\ pc' = "done"
                            /\ UNCHANGED diagnostic
                       ELSE /\ released' = ReleasedFirst
                            /\ Abort("Vulkan function not found")
           ELSE /\ released' = ReleasedFirst \o <<"instance", "window">>
                /\ pc' = "done"
                /\ UNCHANGED diagnostic
    /\ UNCHANGED <<use_validation_layers, physical_device, queue_family_idx,
                   device_families,
                   queue_families, created, physical_devices,
                   scan_idx, devices_info,
                   physical_device_info, capabilities, formats,
                   present_modes, surface_format, image_count,
                   swap_chain_info, swap_chain_images, swap_chain_views,
                   viewport, scissor, should_close>>

Next ==
    \/ InitWindow
    \/ CreateInstance
    \/ CreateMessenger
    \/ CreateSurface
    \/ EnumerateDevices
    \/ ScanDevice
    \/ SelectDevice
    \/ CreateDevice
    \/ QuerySurface
    \/ CheckExtent
    \/ CreateSwapchain
    \/ GetImages
    \/ CreateView
    \/ CreatePipeline
    \/ WaitEvents
    \/ Teardown

Spec == Init /\ [][Next]_vars

\* the program up to the end of the scan of the physical devices, with the
\* queue families of the device scanned last kept in queue_families
NextScan ==
    \/ InitWindow
    \/ CreateInstance
    \/ CreateMessenger
    \/ CreateSurface
    \/ EnumerateDevices
    \/ ScanDeviceObserved

SpecScan == Init /\ [][NextScan]_vars

\* main() is sequential code: once glfwWindowShouldClose returns true the
\* loop of lines 570-572 is left and the statements of lines 574-592 run
SpecLive == Init /\ [][Next]_vars /\ WF_vars(Teardown)


\* ================================ the graphics-only variant: lines 140 - 210
\* state of main.cpp that the variant does not have
unused_vars ==
    <<released, devices_info, physical_device_info, capabilities, formats,
      present_modes, surface_format, image_count, swap_chain_info,
      swap_chain_images, swap_chain_views, viewport, scissor,
      destroyed_views, should_close, queue_families>>

\* the variant queries the queue flags only
GraphicsFamilyLists ==
    SeqsUpTo({f \in QueueFamily : ~f.supports_present}, MaxFamilies)

\* the variant after its setup (lines 52-138): window, instance and, with
\* validation layers, the debug messenger exist
InitGraphicsOnly ==
    /\ pc = "go_enumerate_devices"
    /\ use_validation_layers \in BOOLEAN
    /\ diagnostic = ""
    /\ created = IF use_validation_layers
                     THEN <<"window", "instance", "messenger">>
                     ELSE <<"window", "instance">>
    /\ released = <<>>
    /\ physical_devices = <<>>
    /\ scan_idx = 0
    /\ devices_info = <<>>
    /\ physical_device_info = NoDeviceInfo
    /\ capabilities = NoCapabilities
    /\ formats = <<>>
    /\ present_modes = <<>>
    /\ surface_format = NoFormat
    /\ image_count = Zero32
    /\ swap_chain_info = NoSwapchainInfo
    /\ swap_chain_images = <<>>
    /\ swap_chain_views = <<>>
    /\ viewport = NoViewport
    /\ scissor = NoExtent
    /\ destroyed_views = <<>>
    /\ should_close = FALSE
    /\ queue_families = <<>>
    /\ physical_device = VK_NULL_HANDLE
    /\ queue_family_idx = 0
    /\ device_families = <<>>

\* vkEnumeratePhysicalDevices (lines 140-143); the result code is not read
EnumerateDevicesGraphicsOnly ==
    /\ pc = "go_enumerate_devices"
    /\ \E device_count \in 0..MaxDevices :
        /\ physical_devices' = [i \in 1..device_count |-> i]
        /\ pc' = IF device_count = 0
                     THEN "go_check_device"
                     ELSE "go_scan_devices"
    /\ UNCHANGED <<use_validation_layers, diagnostic, created, scan_idx,
                   physical_device, queue_family_idx, device_families>>
    /\ UNCHANGED unused_vars

\* the queue family loop of one candidate (lines 159-176), from family
\* number idx + 1 on: idx is incremented before the family is tested, and
\* the loop is left at the first assignment
RECURSIVE ScanFamiliesGraphicsOnly(_, _, _, _, _)
ScanFamiliesGraphicsOnly(families, idx, selected, candidate, discrete) ==
    IF idx >= Len(families)
        THEN selected
        ELSE LET queue_family == families[idx + 1]
                 idx1 == idx + 1
             IN  IF queue_family.graphics
                    /\ (selected.physical_device = VK_NULL_HANDLE
                            \/ discrete)
                     THEN [physical_device |-> candidate,
                           queue_family_idx |-> idx1]
                     ELSE ScanFamiliesGraphicsOnly(families, idx1, selected,
                                                   candidate, discrete)

\* one iteration of the loop over physical_devices (lines 147-177)
ScanDeviceGraphicsOnly ==
    /\ pc = "go_scan_devices"
    /\ scan_idx < Len(physical_devices)
    /\ \E families \in GraphicsFamilyLists, is_discrete \in BOOLEAN :
        LET selected ==
                ScanFamiliesGraphicsOnly(
                    families, 0,
                    [physical_device |-> physical_device,
                     queue_family_idx |-> queue_family_idx],
                    physical_devices[scan_idx + 1], is_discrete)
        IN  /\ physical_device' = selected.physical_device
            /\ queue_family_idx' = selected.queue_family_idx
            /\ device_families' = Append(device_families, families)
    /\ scan_idx' = scan_idx + 1
    /\ pc' = IF scan_idx + 1 = Len(physical_devices)
                 THEN "go_check_device"
                 ELSE "go_scan_devices"
    /\ UNCHANGED <<use_validation_layers, diagnostic, created,
                   physical_devices>>
    /\ UNCHANGED unused_vars

\* the test of lines 178-181
CheckDeviceGraphicsOnly ==
    /\ pc = "go_check_device"
    /\ IF physical_device = VK_NULL_HANDLE
           THEN Abort("Failed to find a suitable physical device")
           ELSE pc' = "go_create_device" /\ UNCHANGED diagnostic
    /\ UNCHANGED <<use_validation_layers, created, physical_devices,
                   scan_idx, physical_device, queue_family_idx,
                   device_families>>
    /\ UNCHANGED unused_vars

\* the queue request of lines 183-190
device_queue_info ==
    [queueFamilyIndex |-> queue_family_idx, queueCount |-> 1]

\* vkCreateDevice with device_queue_info (lines 191-210)
CreateDeviceGraphicsOnly ==
    /\ pc = "go_create_device"
    /\ \E ok \in BOOLEAN :
        IF ok
            THEN /\ pc' = "go_event_loop"
                 /\ created' = Append(created, "device")
                 /\ UNCHANGED diagnostic
            ELSE /\ Abort("Failed to create a logical device")
                 /\ UNCHANGED created
    /\ UNCHANGED <<use_validation_layers, physical_devices, scan_idx,
                   physical_device, queue_family_idx, device_families>>
    /\ UNCHANGED unused_vars

NextGraphicsOnly ==
    \/ EnumerateDevicesGraphicsOnly
    \/ ScanDeviceGraphicsOnly
    \/ CheckDeviceGraphicsOnly
    \/ CreateDeviceGraphicsOnly

SpecGraphicsOnly == InitGraphicsOnly /\ [][NextGraphicsOnly]_vars


\* ======================================================== properties
Range(seq) == {seq[i] : i \in DOMAIN seq}

Min(S) == CHOOSE x \in S : \A y \in S : x <= y
Max(S) == CHOOSE x \in S : \A y \in S : x >= y

\* a candidate with a graphics family and a presentation family
HasBothFamilies(info) ==
    Len(info.graphics_family_idx) = 1 /\ Len(info.present_family_idx) = 1

\* positions of devices_info holding a candidate with both families, and
\* those of them that are discrete
SuitableIdx == {i \in DOMAIN devices_info : HasBothFamilies(devices_info[i])}
DiscreteSuitableIdx == {i \in SuitableIdx : devices_info[i].discrete}

\* the selection loop has run and has chosen a device
DeviceSelected == pc = "create_device"

\* the selection loop has run: the program is about to create the logical
\* device or has just terminated for want of a device
SelectionDone ==
    \/ pc = "create_device"
    \/ /\ pc = "aborted"
       /\ diagnostic = "Failed to find a suitable physical device"

\* vkCreateSwapchainKHR has been called with swap_chain_info
SwapchainRequested ==
    \/ "swapchain" \in Range(created)
    \/ /\ pc = "aborted"
       /\ diagnostic = "Failed to create swap chain"

\* the viewport and the scissor have been built
ViewportBuilt == "frag_shader_module" \in Range(created)

\* C1: whenever the candidates contain a discrete device with a graphics
\* and a presentation family, selection succeeds and the selected device is
\* one of those discrete candidates, wherever it sits in the list.
C1_DiscretePreferred ==
    (SelectionDone /\ DiscreteSuitableIdx # {}) =>
        /\ pc = "create_device"
        /\ physical_device_info.discrete
        /\ \E i \in DiscreteSuitableIdx : physical_device_info = devices_info[i]

\* a suitable non-discrete candidate enumerated before a suitable discrete
\* one, and the discrete one selected
C1_Witness ==
    /\ DeviceSelected
    /\ \E i \in SuitableIdx, j \in DiscreteSuitableIdx :
        /\ i < j
        /\ ~devices_info[i].discrete
        /\ physical_device_info = devices_info[j]

\* C2 as stated: the selected device is the first suitable discrete
\* candidate when there is one, and otherwise the first suitable candidate
\* in enumeration order (a later non-discrete one never replaces it).
C2_FirstSuitableSelected ==
    DeviceSelected =>
        physical_device_info =
            IF DiscreteSuitableIdx # {}
                THEN devices_info[Min(DiscreteSuitableIdx)]
                ELSE devices_info[Min(SuitableIdx)]

\* C2 amended: the selected device is the first suitable discrete candidate
\* when there is one, and otherwise the last suitable candidate in
\* enumeration order, since every later suitable candidate replaces an
\* accepted non-discrete one.
C2_FirstDiscreteElseLastSuitable ==
    DeviceSelected =>
        /\ SuitableIdx # {}
        /\ physical_device_info =
               IF DiscreteSuitableIdx # {}
                   THEN devices_info[Min(DiscreteSuitableIdx)]
                   ELSE devices_info[Max(SuitableIdx)]

\* two suitable non-discrete candidates and no suitable discrete one: the
\* later of the two is selected
C2_Witness ==
    /\ DeviceSelected
    /\ DiscreteSuitableIdx = {}
    /\ Cardinality(SuitableIdx) >= 2
    /\ physical_device_info = devices_info[Max(SuitableIdx)]
    /\ physical_device_info # devices_info[Min(SuitableIdx)]

\* C3: when no candidate is discrete and exactly one has both families,
\* selection succeeds and returns exactly that candidate (its handle and
\* its two indices), whatever surrounds it.
C3_SingleSuitableSelected ==
    ( /\ SelectionDone
      /\ \A i \in DOMAIN devices_info : ~devices_info[i].discrete
      /\ Cardinality(SuitableIdx) = 1 ) =>
        /\ pc = "create_device"
        /\ \A i \in SuitableIdx :
            /\ physical_device_info = devices_info[i]
            /\ physical_device_info.device \in Range(physical_devices)

\* the only suitable candidate is the first enumerated device and an
\* unsuitable device follows it
C3_Witness ==
    /\ DeviceSelected
    /\ Len(physical_devices) = 2
    /\ \A i \in DOMAIN devices_info : ~devices_info[i].discrete
    /\ Cardinality(SuitableIdx) = 1
    /\ physical_device_info.device = physical_devices[1]
    /\ has_value(devices_info[Len(devices_info)].graphics_family_idx)

\* C4: when no device was enumerated or no candidate has both families,
\* the program has printed the diagnostic and terminated, with no logical
\* device, swapchain or later resource created.
C4_NoSuitableDeviceAborts ==
    (SelectionDone /\ SuitableIdx = {}) =>
        /\ pc = "aborted"
        /\ diagnostic = "Failed to find a suitable physical device"
        /\ Range(created) \subseteq {"window", "instance", "messenger", "surface"}
        /\ swap_chain_info = NoSwapchainInfo
        /\ swap_chain_views = <<>>

\* devices were enumerated, none has both families, the program terminated
C4_Witness ==
    /\ pc = "aborted"
    /\ diagnostic = "Failed to find a suitable physical device"
    /\ Len(physical_devices) = 2
    /\ SuitableIdx = {}
    /\ \E i \in DOMAIN devices_info : has_value(devices_info[i].graphics_family_idx)

\* C5: after the format loop, the chosen format is the pair (B8G8R8A8 sRGB,
\* sRGB non-linear) when the reported list contains it at any position, and
\* the first entry of the list otherwise.
C5_FormatChoice ==
    pc = "check_extent" =>
        /\ formats # <<>>
        /\ IF PreferredFormat \in Range(formats)
               THEN surface_format = PreferredFormat
               ELSE surface_format = formats[1]

\* the preferred pair reported in second place and chosen
C5_Witness ==
    /\ pc = "check_extent"
    /\ Len(formats) = 2
    /\ formats[2] = PreferredFormat
    /\ surface_format = PreferredFormat

\* C6: the image count handed to the swapchain is minImageCount + 1 (in
\* uint32_t arithmetic, as the code computes it) when maxImageCount is 0 or
\* minImageCount + 1 <= maxImageCount, and maxImageCount when maxImageCount
\* is nonzero and minImageCount + 1 exceeds it.
C6_ImageCount ==
    SwapchainRequested =>
        LET min  == capabilities.minImageCount
            max  == capabilities.maxImageCount
            plus == Inc32(min)
        IN  /\ (max = Zero32 \/ Le32(plus, max)) =>
                   swap_chain_info.minImageCount = plus
            /\ (max # Zero32 /\ Gt32(plus, max)) =>
                   swap_chain_info.minImageCount = max

\* min 2, max 2: the count 3 is clamped to 2
C6_Witness ==
    /\ "swapchain" \in Range(created)
    /\ capabilities.minImageCount = U32(2)
    /\ capabilities.maxImageCount = U32(2)
    /\ swap_chain_info.minImageCount = U32(2)

\* C7: the sharing mode handed to the swapchain is exclusive exactly when
\* the selected graphics and presentation family indices are equal;
\* otherwise it is concurrent and the queue family indices handed over are
\* the two distinct indices (graphics, presentation) of the selected device.
C7_SharingMode ==
    SwapchainRequested =>
        LET g == physical_device_info.graphics_family_idx[1]
            p == physical_device_info.present_family_idx[1]
        IN  /\ swap_chain_info.imageSharingMode \in {"EXCLUSIVE", "CONCURRENT"}
            /\ swap_chain_info.imageSharingMode = "EXCLUSIVE" <=> g = p
            /\ swap_chain_info.imageSharingMode = "CONCURRENT" =>
                   /\ swap_chain_info.queueFamilyIndices = <<g, p>>
                   /\ g # p

\* a swapchain created for a device whose two families differ
C7_Witness ==
    /\ "swapchain" \in Range(created)
    /\ swap_chain_info.imageSharingMode = "CONCURRENT"
    /\ swap_chain_info.queueFamilyIndices = <<1, 0>>


\* C8: when the surface query reports an empty format list or an empty
\* present mode list, the program prints a diagnostic and terminates with no
\* format chosen and no swapchain requested or created; a swapchain exists
\* only after a non-empty present mode list was reported and a reported
\* format was chosen.
C8_EmptyListsAbort ==
    [][ /\ ( /\ pc = "query_surface"
             /\ (formats' = <<>> \/ present_modes' = <<>>) ) =>
                 /\ pc' = "aborted"
                 /\ diagnostic' # ""
                 /\ surface_format' = NoFormat
                 /\ swap_chain_info' = NoSwapchainInfo
                 /\ "swapchain" \notin Range(created')
        /\ (pc = "query_surface" /\ pc' # "aborted") =>
                 surface_format' \in Range(formats')
        /\ "swapchain" \in Range(created') =>
                 /\ present_modes' # <<>>
                 /\ surface_format' \in SurfaceFormats
      ]_vars

\* an empty format list next to a non-empty present mode list: terminated
\* with no format chosen
C8_Witness ==
    /\ pc = "aborted"
    /\ diagnostic = "Insufficient swap chain support"
    /\ formats = <<>>
    /\ present_modes # <<>>
    /\ surface_format = NoFormat

\* the program got past the extent check
PastExtentCheck == pc \notin {"query_surface", "check_extent", "aborted"}

\* the part of C9 that needs no amendment: with the all-bits-set width the
\* program never gets past the extent check and requests no swapchain;
\* otherwise the swapchain extent and the scissor extent are the reported
\* current extent
ExtentHandedOn ==
    /\ capabilities.currentExtent.width = UINT32_MAX =>
           /\ ~PastExtentCheck
           /\ ~SwapchainRequested
           /\ swap_chain_info = NoSwapchainInfo
    /\ SwapchainRequested =>
           swap_chain_info.imageExtent = capabilities.currentExtent
    /\ ViewportBuilt => scissor = capabilities.currentExtent

\* C9 as stated: ... and the viewport width and height are exactly the
\* width and height of the reported current extent, in every case other
\* than the all-bits-set width.
C9_ExtentExact ==
    /\ ExtentHandedOn
    /\ ViewportBuilt =>
           /\ viewport.width = capabilities.currentExtent.width
           /\ viewport.height = capabilities.currentExtent.height

\* a uint32_t that a 32-bit float holds exactly for certain: at most 2^24
FitsFloat(x) == Le32(x, <<Pow2(FloatBits - 16), 0>>)

\* C9 amended: with the all-bits-set width the program terminates without
\* a swapchain; otherwise the swapchain extent and the scissor extent are
\* exactly the reported current extent, and the viewport width and height,
\* which are the extent converted to 32-bit float, equal the extent's
\* whenever these are at most 2^24.
C9_ExtentExactUpToFloat ==
    /\ ExtentHandedOn
    /\ ViewportBuilt =>
           /\ FitsFloat(capabilities.currentExtent.width) =>
                  viewport.width = capabilities.currentExtent.width
           /\ FitsFloat(capabilities.currentExtent.height) =>
                  viewport.height = capabilities.currentExtent.height

\* the window-sized extent handed to the swapchain, the viewport and the
\* scissor
C9_Witness ==
    /\ pc = "event_loop"
    /\ capabilities.currentExtent =
           [width |-> U32(g_window_width), height |-> U32(g_window_height)]
    /\ swap_chain_info.imageExtent = capabilities.currentExtent
    /\ scissor = capabilities.currentExtent
    /\ viewport = [width |-> U32(g_window_width),
                   height |-> U32(g_window_height)]

\* C10: a step that prints a diagnostic ends in the aborted state, and a
\* run ends there only with a diagnostic; when the failing step is a setup
\* step, nothing has been released and the event loop has not run; no step
\* is ever taken from the aborted state, so nothing is retried and no later
\* setup step, event loop or teardown follows.
C10_FailureIsFatal ==
    [][ /\ pc # "aborted"
        /\ diagnostic' # "" => pc' = "aborted"
        /\ pc' = "aborted" => diagnostic' # ""
        /\ (pc # "event_loop" /\ pc' = "aborted") =>
               /\ released' = <<>>
               /\ destroyed_views' = <<>>
               /\ should_close' = FALSE
               /\ \A i \in DOMAIN created : created'[i] = created[i]
      ]_vars

\* the view of some image could not be created: terminated with the
\* swapchain created and nothing released
C10_Witness ==
    /\ pc = "aborted"
    /\ diagnostic = "Failed to create an image view"
    /\ "swapchain" \in Range(created)
    /\ released = <<>>
    /\ ~should_close


\* the run has got past device selection: the program is at, or beyond,
\* the creation of the logical device
PastSelection ==
    \/ pc = "create_device"
    \/ "device" \in Range(created)
    \/ /\ pc = "aborted"
       /\ diagnostic = "Failed to create a logical device"

\* C11: on every run that gets past device selection the selected record
\* has its graphics family index and its presentation family index
\* present, and the indices handed to the swapchain are the values the
\* two optionals hold.
C11_IndicesPresent ==
    /\ PastSelection => HasBothFamilies(physical_device_info)
    /\ SwapchainRequested =>
           swap_chain_info.queueFamilyIndices =
               <<physical_device_info.graphics_family_idx[1],
                 physical_device_info.present_family_idx[1]>>

\* the program has reached the event loop, past every dereference of the
\* two optionals, with a selected device whose indices differ
C11_Witness ==
    /\ pc = "event_loop"
    /\ HasBothFamilies(physical_device_info)
    /\ physical_device_info.graphics_family_idx
           # physical_device_info.present_family_idx
    /\ physical_device_info.device # VK_NULL_HANDLE


\* the scan loop has just visited a device: the last candidate record is
\* the one built from queue_families
DeviceScanned ==
    /\ pc \in {"scan_devices", "select_device"}
    /\ scan_idx >= 1

\* 0-based indices of the families of queue_families with the graphics
\* bit, and of those with surface support
GraphicsFamilies ==
    {i \in 0..(Len(queue_families) - 1) : queue_families[i + 1].graphics}
PresentFamilies ==
    {i \in 0..(Len(queue_families) - 1) :
        queue_families[i + 1].supports_present}

\* C12: after the queue-family scan of one device, the recorded graphics
\* index is the largest 0-based index of a family with the graphics bit,
\* the recorded presentation index is the largest 0-based index of a
\* family with surface support, an index is absent exactly when no family
\* qualifies, and each index depends on its own capability alone.
C12_LastQualifyingIndex ==
    DeviceScanned =>
        LET info == devices_info[Len(devices_info)]
        IN  /\ info.device = physical_devices[scan_idx]
            /\ info.graphics_family_idx =
                   IF GraphicsFamilies = {}
                       THEN NoIdx
                       ELSE Some(Max(GraphicsFamilies))
            /\ info.present_family_idx =
                   IF PresentFamilies = {}
                       THEN NoIdx
                       ELSE Some(Max(PresentFamilies))

\* a device whose two families both have the graphics bit and whose first
\* family alone supports the surface: the indices recorded are 1 and 0
C12_Witness ==
    /\ DeviceScanned
    /\ GraphicsFamilies = {0, 1}
    /\ PresentFamilies = {0}
    /\ devices_info[Len(devices_info)].graphics_family_idx = Some(1)
    /\ devices_info[Len(devices_info)].present_family_idx = Some(0)


\* position of x in seq
Pos(seq, x) == CHOOSE i \in DOMAIN seq : seq[i] = x

\* x comes before y in seq whenever both occur in it
Before(seq, x, y) ==
    (x \in Range(seq) /\ y \in Range(seq)) => Pos(seq, x) < Pos(seq, y)

\* the resources the release order is stated for
OrderedResources ==
    {"swapchain", "device", "surface", "messenger", "instance", "window"}

\* the image views that were created: the non-null entries of the list
CreatedViews == {v \in Range(swap_chain_views) : v # VK_NULL_HANDLE}

\* the releases made so far follow the order swapchain, logical device,
\* surface, debug messenger, instance, window, the reverse of the order of
\* creation; nothing is released twice or without having been created;
\* image views, shader modules and pipeline layout go before the device
\* and the swapchain before device and surface
ReleaseOrderKept ==
    /\ \A i, j \in DOMAIN released : released[i] = released[j] => i = j
    /\ SelectSeq(released, LAMBDA x : x \in OrderedResources) =
           SelectSeq(<<"swapchain", "device", "surface", "messenger",
                       "instance", "window">>,
                     LAMBDA x : x \in Range(released))
    /\ \A x, y \in OrderedResources :
           (x \in Range(released) /\ y \in Range(released) /\ x # y) =>
               (Pos(released, x) < Pos(released, y)
                    <=> Pos(created, y) < Pos(created, x))
    /\ \A x \in {"image_views", "vert_shader_module",
                  "frag_shader_module", "pipeline_layout", "swapchain"} :
           Before(released, x, "device")
    /\ Before(released, "swapchain", "surface")
    /\ Range(released) \ {"image_views"} \subseteq Range(created)

\* every resource that was created has been released, each view once
AllReleasedOnce ==
    /\ Range(released) \ {"image_views"} = Range(created)
    /\ \A v \in CreatedViews :
           Cardinality({i \in DOMAIN destroyed_views :
                           destroyed_views[i] = v}) = 1

\* C13 as stated: teardown releases swapchain, logical device, surface,
\* debug messenger (when enabled), instance and window in that order, the
\* reverse of their creation order, dependants before what they were
\* created from, and every resource that was created is released exactly
\* once.
C13_ReleaseOrderAndAllReleased ==
    /\ ReleaseOrderKept
    /\ released # <<>> => AllReleasedOnce

\* C13, amended: the order holds on every run; every created resource is
\* released exactly once when main() returns; a build with validation
\* layers that cannot resolve vkDestroyDebugUtilsMessengerEXT terminates
\* after releasing the surface, with the messenger, the instance and the
\* window created and never released.
C13_ReleaseOrder ==
    /\ ReleaseOrderKept
    /\ pc = "done" => AllReleasedOnce
    /\ (pc = "aborted" /\ released # <<>>) =>
           /\ use_validation_layers
           /\ diagnostic = "Vulkan function not found"
           /\ released = ReleasedFirst
           /\ Range(created) \ Range(released) =
                  {"messenger", "instance", "window"}
    /\ released # <<>> => pc \in {"done", "aborted"}

\* main() has returned from a build with validation layers: ten releases,
\* the messenger among them, and every created view destroyed
C13_Witness ==
    /\ pc = "done"
    /\ use_validation_layers
    /\ Len(released) = 10
    /\ "messenger" \in Range(released)
    /\ Cardinality(CreatedViews) >= 2
    /\ CreatedViews \subseteq Range(destroyed_views)


\* C14 as stated, its last part as a final result: once the should-close
\* flag is set the run is either still at the loop test or has completed
\* teardown and returned EXIT_SUCCESS.
C14_TeardownCompletes ==
    should_close => pc \in {"event_loop", "done"}

\* C14, amended: in the event loop nothing is released while the
\* should-close flag is clear; the key callback sets the flag for Q and
\* Escape and leaves it unchanged for every other key; once the flag is
\* set the loop is left and teardown runs, to the return of EXIT_SUCCESS
\* or, in a build with validation layers that cannot resolve
\* vkDestroyDebugUtilsMessengerEXT, to termination after the surface has
\* been released.
C14_EventLoopThenTeardown ==
    /\ [][ (pc = "event_loop" /\ ~should_close) =>
               /\ pc' = "event_loop"
               /\ released' = <<>>
               /\ destroyed_views' = <<>> ]_vars
    /\ [](released # <<>> => should_close)
    /\ [](\A flag \in BOOLEAN, key \in Keys :
             glfw_key_callback(flag, key) =
                 IF key \in {"Q", "ESCAPE"} THEN TRUE ELSE flag)
    /\ [][ (pc = "event_loop" /\ should_close) =>
               \/ pc' = "done" /\ AllReleasedOnce'
               \/ /\ pc' = "aborted"
                  /\ use_validation_layers
                  /\ diagnostic' = "Vulkan function not found"
                  /\ released' = ReleasedFirst ]_vars
    /\ (pc = "event_loop" /\ should_close) ~> (pc \in {"done", "aborted"})

\* the flag was set in the event loop and main() has returned after a
\* complete teardown
C14_Witness ==
    /\ pc = "done"
    /\ should_close
    /\ released # <<>>
    /\ "window" \in Range(released)


\* the loop over physical_devices has ended and devices_info is about to
\* be read by the selection loop
ScanEnded == pc = "select_device"

\* C15: the candidate list built during selection holds exactly one
\* record per enumerated physical device: its length is the number of
\* enumerated devices and every entry carries the handle of a distinct
\* enumerated device.
C15_OneCandidatePerDevice ==
    ScanEnded =>
        /\ Len(devices_info) = Len(physical_devices)
        /\ \A i \in DOMAIN devices_info :
               devices_info[i].device \in Range(physical_devices)
        /\ \A i, j \in DOMAIN devices_info :
               devices_info[i].device = devices_info[j].device => i = j


\* the negotiated values other than the variable image_count never change
\* once produced: the surface format, the capabilities with the extent,
\* and the creation parameters with format, present mode, extent and
\* requested image count
NegotiatedValuesKept ==
    /\ surface_format # NoFormat => surface_format' = surface_format
    /\ capabilities # NoCapabilities => capabilities' = capabilities
    /\ SwapchainRequested => swap_chain_info' = swap_chain_info

\* C16 as stated: once surface negotiation has produced its values none
\* of them changes for the rest of the run; in particular image_count
\* keeps the value computed at lines 369-373 after the swapchain has
\* been created and its images queried.
C16_NegotiatedValuesFrozen ==
    [][ /\ NegotiatedValuesKept
        /\ SwapchainRequested => image_count' = image_count ]_vars

\* C16, amended: surface format, extent, present mode and the image count
\* handed to the swapchain never change once produced; the variable
\* image_count is overwritten by vkGetSwapchainImagesKHR with the number
\* of images the swapchain has, which is at least the count asked for,
\* and does not change otherwise.
C16_FrozenExceptImageCount ==
    [][ /\ NegotiatedValuesKept
        /\ (pc = "get_images" /\ pc' = "create_views") =>
               /\ image_count' = U32(Len(swap_chain_images'))
               /\ Le32(swap_chain_info.minImageCount, image_count')
        /\ (SwapchainRequested /\ pc # "get_images") =>
               image_count' = image_count ]_vars

\* the swapchain was asked for two images and has three: image_count
\* holds three while the program waits for events
C16_Witness ==
    /\ pc = "event_loop"
    /\ swap_chain_info.minImageCount = U32(2)
    /\ image_count = U32(3)
    /\ Len(swap_chain_images) = 3


\* the variant has selected a device and hands device_queue_info to
\* vkCreateDevice
DeviceRequestedGraphicsOnly ==
    \/ pc \in {"go_create_device", "go_event_loop"}
    \/ /\ pc = "aborted"
       /\ diagnostic = "Failed to create a logical device"

\* C17: in the graphics-only variant the queue-family index recorded for
\* the selected device and passed to logical-device creation is the
\* 0-based index of a queue family of that device that advertises
\* graphics support, and so is smaller than the device's family count.
C17_IndexOfGraphicsFamily ==
    DeviceRequestedGraphicsOnly =>
        LET families == device_families[physical_device]
        IN  /\ device_queue_info.queueFamilyIndex < Len(families)
            /\ families[device_queue_info.queueFamilyIndex + 1].graphics


\* C18: with the image count computed in 32-bit unsigned arithmetic, for
\* all capabilities with minImageCount >= 1 and maxImageCount either 0 or
\* at least minImageCount, the image count requested from the swapchain
\* is never less than minImageCount and never greater than a nonzero
\* maxImageCount.
C18_ImageCountInRange ==
    (/\ SwapchainRequested
     /\ Gt32(capabilities.minImageCount, Zero32)
     /\ \/ capabilities.maxImageCount = Zero32
        \/ Le32(capabilities.minImageCount, capabilities.maxImageCount)) =>
        /\ Le32(capabilities.minImageCount, swap_chain_info.minImageCount)
        /\ Gt32(capabilities.maxImageCount, Zero32) =>
               Le32(swap_chain_info.minImageCount,
                    capabilities.maxImageCount)


\* teardown has run its loop over swap_chain_views
ViewsDestroyed == "image_views" \in Range(released)

\* C19: the list of swapchain image views holds exactly one entry per
\* swapchain image returned by the driver, each entry a successfully
\* created view, so teardown issues exactly one destroy call per created
\* view and none on a null handle, all before the swapchain is destroyed.
C19_OneViewPerImage ==
    /\ pc \in {"create_pipeline", "event_loop", "done"} =>
           /\ Len(swap_chain_views) = Len(swap_chain_images)
           /\ \A i \in DOMAIN swap_chain_views :
                  swap_chain_views[i] # VK_NULL_HANDLE
    /\ ViewsDestroyed =>
           /\ Len(destroyed_views) = Len(swap_chain_images)
           /\ \A i \in DOMAIN destroyed_views :
                  destroyed_views[i] # VK_NULL_HANDLE
           /\ \A v \in CreatedViews :
                  Cardinality({i \in DOMAIN destroyed_views :
                                  destroyed_views[i] = v}) = 1
           /\ Before(released, "image_views", "swapchain")
====
